---- MODULE Spec2Model ----
(***************************************************************************)
(* A model of pyroll's conversion core (pyroll/pianoroll.py):              *)
(*   midi_to_pianoroll  - _get_notes, _get_pedal, _get_metadata and the    *)
(*                        grid assembly,                                   *)
(*   pianoroll_to_midi  - the note-event emitter and the meta track,       *)
(*   PianoRoll          - __init__, add_metadata, from_seq,                *)
(* and of build_dataset (pyroll/dataset.py).                               *)
(*                                                                         *)
(* A midi event is a record [type, note, velocity, time]; a piano-roll     *)
(* note {"val": v, "art": a} is the pair <<v, a>>, as the tuple form       *)
(* (("val", v), ("art", a)) the assembly uses.  A Python list is a         *)
(* sequence, a dict is a function whose DOMAIN is its key set.             *)
(*                                                                         *)
(* The scans of a track (_get_notes, _get_pedal, _get_metadata) each read  *)
(* only the events of their own types and the absolute tick of those       *)
(* events.  A scan therefore draws, at each iteration of its loop, the     *)
(* next event it reads together with the tick distance to the previous     *)
(* event it read (the sum of the deltas of the events in between, which    *)
(* the scan skips).                                                        *)
(***************************************************************************)
EXTENDS Integers, Sequences, FiniteSets, TLC

\* ---------------------------------------------------------------- bounds
MaxEvents == 4          \* note and pedal events read in one midi file
MaxTracks == 2          \* tracks of a midi file
MaxSteps == 3           \* steps of a piano-roll given to pianoroll_to_midi
MaxMetaEvents == 3      \* tempo and key-signature events of one midi file

Pitches == {60, 62}
Deltas == {0, 1, 3}     \* tick distances between two events a scan reads
TicksPerBeat == {5}     \* mid.ticks_per_beat
Divs == {2}             \* div
Tempos == {500000, 600000}
Keys == {"C", "G"}
StepTicks == {64}       \* meta_data["ticks_per_step"] of a given piano-roll

VARIABLES
    pc,             \* position in the conversion
    ticks_per_step, \* int(mid.ticks_per_beat / div)
    pedal,          \* the pedal argument of midi_to_pianoroll
    trk,            \* index of the track the loop of line 316 is at
    nread,          \* note and pedal events read so far in the file
    curr_tick,      \* absolute tick of the last event read (lines 306-310)
    last_note_on,   \* _get_notes: pitch -> list of open start ticks
    notes,          \* _get_notes: list of (pitch, start_tick, end_tick)
    note_event,     \* _get_notes: the event the loop of line 249 is at, with
                    \* its absolute time
    last_pedal_on,  \* _get_pedal: tick of the last pedal-down
    mid_pedal,      \* _get_pedal: list of (down_tick, up_tick)
    i_note,         \* position of the loop of line 322 in notes
    start,          \* start step of the note assembled last
    end,            \* end step of the note assembled last
    piano_roll,     \* the defaultdict(list) of line 315: step -> list of notes
    roll,           \* the roll of the returned PianoRoll
    in_roll,        \* piano_roll.roll, the argument of pianoroll_to_midi
    k,              \* steps of in_roll the loop of line 159 has processed
    on_notes,       \* pianoroll_to_midi: list of the sounding pitches
    delta_t,        \* pianoroll_to_midi: ticks since the last emitted event
    track,          \* the note track pianoroll_to_midi builds (delta times)
    mid_meta,       \* mid.tracks: the tempo and key-signature events read so
                    \* far, track by track, with absolute times
    meta_events,    \* _get_metadata: the list of meta events
    roll_meta,      \* piano_roll.meta_data["meta_events"] of a given roll
    meta_track,     \* the meta track pianoroll_to_midi builds (delta times)
    paths,          \* build_dataset: the files the directory search yields
    metadata_fn,    \* build_dataset: "None" or "fn"
    filter_fn,      \* build_dataset: "None" or "fn"
    n_path,         \* build_dataset: files the loop of line 184 has taken
    parse_err_num,  \* build_dataset: files whose parse raised
    filter_num,     \* build_dataset: files the filter rejected
    piano_rolls,    \* build_dataset: the list given to PianoRollDataset
    cc_track,       \* _get_pedal: the control-change events of the track
                    \* read so far, with absolute times
    lists,          \* the list objects the instances refer to, by identity
    dicts,          \* the dict objects the instances refer to, by identity
    insts,          \* the PianoRoll and PianoRollDataset instances created
    target,         \* the instance the last mutation was made through
    n_mut,          \* mutations made so far
    seq,            \* from_seq: the argument
    n_tok,          \* from_seq: tokens the loop of line 79 has taken
    seq_chord,      \* from_seq: chord, the integer tokens since the last "<T>"
    seq_roll,       \* from_seq: the roll built so far
    in_meta,        \* piano_roll.meta_data of a roll given to
                    \* pianoroll_to_midi: its ticks_per_step and div
    mid_tpb,        \* mid.ticks_per_beat of the file pianoroll_to_midi builds
    out_meta        \* the meta_data midi_to_pianoroll returns for that file

gridVars == <<pedal, trk, nread, last_pedal_on, mid_pedal, i_note, start, end,
              piano_roll, roll>>
scanVars == <<curr_tick, last_note_on, notes, note_event>>
emitVars == <<in_roll, k, on_notes, delta_t, track>>

metaVars == <<mid_meta, meta_events>>
tripVars == <<roll_meta, meta_track>>
buildVars == <<paths, metadata_fn, filter_fn, n_path, parse_err_num,
               filter_num, piano_rolls>>
shareVars == <<lists, dicts, insts, target, n_mut>>
seqVars == <<seq, n_tok, seq_chord, seq_roll>>
roundVars == <<in_meta, mid_tpb, out_meta>>

\* the state of the operations other than the two converters' note paths
extVars == <<tripVars, buildVars, cc_track, shareVars, seqVars, roundVars>>

vars == <<pc, ticks_per_step, gridVars, scanVars, emitVars, metaVars,
          extVars>>

\* lines 134-138: no meta track is built
TripIdle == roll_meta = <<>> /\ meta_track = <<>>

\* dataset.py lines 174-177: build_dataset is not called
BuildIdle ==
    /\ paths = <<>>
    /\ metadata_fn = "None"
    /\ filter_fn = "None"
    /\ n_path = 0
    /\ parse_err_num = 0
    /\ filter_num = 0
    /\ piano_rolls = <<>>

\* lines 28, 73: no instance is created
ShareIdle ==
    /\ lists = <<>>
    /\ dicts = <<>>
    /\ insts = <<>>
    /\ target = 0
    /\ n_mut = 0

\* lines 73-77: from_seq is not called
SeqIdle ==
    /\ seq = <<>>
    /\ n_tok = 0
    /\ seq_chord = <<>>
    /\ seq_roll = <<>>

\* lines 129-133, 206-207: no file is built from a roll's meta_data
RoundIdle ==
    /\ in_meta = <<>>
    /\ mid_tpb = 0
    /\ out_meta = <<>>

ExtIdle ==
    /\ TripIdle /\ BuildIdle /\ cc_track = <<>> /\ ShareIdle /\ SeqIdle
    /\ RoundIdle

\* the state outside the meta track of pianoroll_to_midi
notTripVars == <<buildVars, cc_track, shareVars, seqVars, roundVars>>
NotTripIdle ==
    BuildIdle /\ cc_track = <<>> /\ ShareIdle /\ SeqIdle /\ RoundIdle

\* the state outside build_dataset
notBuildVars == <<tripVars, cc_track, shareVars, seqVars, roundVars>>
NotBuildIdle ==
    TripIdle /\ cc_track = <<>> /\ ShareIdle /\ SeqIdle /\ RoundIdle

\* the state outside the instances and their containers
notShareVars == <<tripVars, buildVars, cc_track, seqVars, roundVars>>
NotShareIdle ==
    TripIdle /\ BuildIdle /\ cc_track = <<>> /\ SeqIdle /\ RoundIdle

\* the state outside from_seq
notSeqVars == <<tripVars, buildVars, cc_track, shareVars, roundVars>>
NotSeqIdle ==
    TripIdle /\ BuildIdle /\ cc_track = <<>> /\ ShareIdle /\ RoundIdle

\* the state outside the meta_data of a round trip
notRoundVars == <<tripVars, buildVars, cc_track, shareVars, seqVars>>
NotRoundIdle ==
    TripIdle /\ BuildIdle /\ cc_track = <<>> /\ ShareIdle /\ SeqIdle

\* ------------------------------------------------------------- helpers
Range(s) == {s[i] : i \in DOMAIN s}

MaxOf(S) == CHOOSE x \in S : \A y \in S : y <= x

\* math.ceil(a / b) for a >= 0, b > 0
Ceil(a, b) == IF a % b = 0 THEN a \div b ELSE (a \div b) + 1

\* list.remove(x): drops the first occurrence of x
RemoveFirst(s, x) ==
    LET i == CHOOSE j \in DOMAIN s : s[j] = x /\ \A h \in 1..(j - 1) : s[h] # x
    IN  SubSeq(s, 1, i - 1) \o SubSeq(s, i + 1, Len(s))

\* d.get(key, default) / defaultdict access
Get(d, key, default) == IF key \in DOMAIN d THEN d[key] ELSE default

\* ---------------------------------------------------------- _get_notes
\* line 249: the loop has not taken an event
NoEvent == [type |-> "none"]

NoteOnEvents == [type : {"note_on"}, note : Pitches, velocity : {0, 100}]
NoteOffEvents == [type : {"note_off"}, note : Pitches, velocity : {64}]
NoteEvents == NoteOnEvents \cup NoteOffEvents

IsNoteOn(event) == event.type = "note_on" /\ event.velocity > 0

IsNoteOff(event) ==
    event.type = "note_off" \/ (event.type = "note_on" /\ event.velocity = 0)

\* lines 262-266 without the comparison of the ticks
NotesToCloseAll(open_notes, end_tick) == open_notes

\* lines 262-266
NotesToClose(open_notes, end_tick) ==
    SelectSeq(open_notes, LAMBDA start_tick : start_tick # end_tick)

\* lines 267-271
NotesToKeep(open_notes, end_tick) ==
    SelectSeq(open_notes, LAMBDA start_tick : start_tick = end_tick)

\* lines 273-274 with start_tick and end_tick in each other's place
ClosedNotesSwapped(note, open_notes, end_tick) ==
    LET close == NotesToClose(open_notes, end_tick)
    IN  [j \in 1..Len(close) |-> <<note, end_tick, close[j]>>]

\* lines 273-274: one interval per closed start
ClosedNotes(note, open_notes, end_tick) ==
    LET close == NotesToClose(open_notes, end_tick)
    IN  [j \in 1..Len(close) |-> <<note, close[j], end_tick>>]

\* lines 252-282 with the kept starts kept whenever there are any
OpenAfterKept(lno, event, time) ==
    IF IsNoteOn(event)
    THEN [p \in DOMAIN lno \cup {event.note} |->
             IF p = event.note THEN Append(Get(lno, p, <<>>), time) ELSE lno[p]]
    ELSE IF IsNoteOff(event) /\ event.note \in DOMAIN lno
    THEN IF Len(NotesToKeep(lno[event.note], time)) > 0
         THEN [lno EXCEPT ![event.note] = NotesToKeep(lno[event.note], time)]
         ELSE [p \in DOMAIN lno \ {event.note} |-> lno[p]]
    ELSE lno

\* lines 252-282: the open lists after one event at absolute tick `time`
OpenAfter(lno, event, time) ==
    IF IsNoteOn(event)
    THEN [p \in DOMAIN lno \cup {event.note} |->
             IF p = event.note THEN Append(Get(lno, p, <<>>), time) ELSE lno[p]]
    ELSE IF IsNoteOff(event) /\ event.note \in DOMAIN lno
    THEN IF /\ Len(NotesToClose(lno[event.note], time)) > 0
            /\ Len(NotesToKeep(lno[event.note], time)) > 0
         THEN [lno EXCEPT ![event.note] = NotesToKeep(lno[event.note], time)]
         ELSE [p \in DOMAIN lno \ {event.note} |-> lno[p]]
    ELSE lno

\* lines 252-282: the intervals after one event at absolute tick `time`
NotesAfter(ns, lno, event, time) ==
    IF IsNoteOff(event) /\ event.note \in DOMAIN lno
    THEN ns \o ClosedNotes(event.note, lno[event.note], time)
    ELSE ns

\* ---------------------------------------------------------- _get_pedal
PedalValues == {0, 127}

\* lines 294-295 with every value but 0 taken as a pedal-down
PedalOnAfterNonZero(lpo, value, time) == IF value # 0 THEN time ELSE lpo

\* lines 293-297
PedalOnAfter(lpo, value, time) == IF value = 127 THEN time ELSE lpo

\* lines 296-297 with the two ticks in each other's place
PedalAfterSwapped(ped, lpo, value, time) ==
    IF value = 0 THEN Append(ped, <<time, lpo>>) ELSE ped

PedalAfter(ped, lpo, value, time) ==
    IF value = 0 THEN Append(ped, <<lpo, time>>) ELSE ped

\* ------------------------------------------------------- grid assembly
\* line 323
StartStep(note, tps) == Ceil(note[2], tps)

\* line 330 with the lower comparison weakened to <=
PedalContainsClosed(pedal_range, end_tick) ==
    pedal_range[1] <= end_tick /\ end_tick < pedal_range[2]

\* line 330
PedalContains(pedal_range, end_tick) ==
    pedal_range[1] < end_tick /\ end_tick < pedal_range[2]

\* lines 328-331
PedalEndTicks(note, ped) ==
    {0} \cup {ped[j][2] : j \in {h \in DOMAIN ped : PedalContains(ped[h], note[3])}}

\* lines 326-338
EndStep(note, ped, tps, pedal_on) ==
    IF pedal_on
    THEN MaxOf({Ceil(note[3], tps), Ceil(MaxOf(PedalEndTicks(note, ped)), tps)})
    ELSE Ceil(note[3], tps)

\* lines 342-345: the list of the start step
AtStart(chord, val) ==
    Append(IF <<val, "l">> \in Range(chord)
           THEN RemoveFirst(chord, <<val, "l">>)
           ELSE chord,
           <<val, "s">>)

\* lines 352-353: the list of a step inside the note
AtHeld(chord, val) ==
    IF <<val, "s">> \notin Range(chord) THEN Append(chord, <<val, "l">>) ELSE chord

\* lines 342-353: the dict after one note
Assemble(pr, note, s, e) ==
    [i \in DOMAIN pr \cup {s} \cup ((s + 1)..(e - 1)) |->
        IF i = s THEN AtStart(Get(pr, i, <<>>), note[1])
        ELSE IF i \in (s + 1)..(e - 1) THEN AtHeld(Get(pr, i, <<>>), note[1])
        ELSE pr[i]]

\* lines 358-364: the list of chords, each the set of the notes of its step
RollOf(pr) ==
    [i \in 1..MaxOf(DOMAIN pr) |-> Range(Get(pr, i - 1, <<>>))]

\* ------------------------------------------------- midi_to_pianoroll
Init ==
    /\ pc = "notes"
    /\ \E tpb \in TicksPerBeat, d \in Divs : ticks_per_step = tpb \div d
    /\ pedal \in BOOLEAN
    /\ trk = 1
    /\ nread = 0
    /\ curr_tick = 0
    /\ last_note_on = <<>>
    /\ notes = <<>>
    /\ note_event = NoEvent
    /\ last_pedal_on = 0
    /\ mid_pedal = <<>>
    /\ i_note = 1
    /\ start = 0
    /\ end = 0
    /\ piano_roll = <<>>
    /\ roll = <<>>
    /\ in_roll = <<>>
    /\ k = 0
    /\ on_notes = <<>>
    /\ delta_t = 0
    /\ track = <<>>
    /\ mid_meta = <<>>
    /\ meta_events = <<>>
    /\ ExtIdle

\* one iteration of the loop of line 249 on a note event
GetNotesEvent ==
    /\ pc = "notes"
    /\ nread < MaxEvents
    /\ \E event \in NoteEvents, delta \in Deltas :
         LET time == curr_tick + delta IN
         /\ curr_tick' = time
         /\ last_note_on' = OpenAfter(last_note_on, event, time)
         /\ notes' = NotesAfter(notes, last_note_on, event, time)
         /\ note_event' = [type |-> event.type, note |-> event.note,
                           velocity |-> event.velocity, time |-> time]
    /\ nread' = nread + 1
    /\ UNCHANGED <<pc, ticks_per_step, pedal, trk, last_pedal_on,
                   mid_pedal, i_note, start, end, piano_roll, roll>>
    /\ UNCHANGED <<emitVars, metaVars, extVars>>

\* line 284: _get_notes returns; line 319 calls _get_pedal
EndNotes ==
    /\ pc = "notes"
    /\ pc' = "pedal"
    /\ curr_tick' = 0
    /\ last_note_on' = <<>>
    /\ note_event' = NoEvent
    /\ last_pedal_on' = 0
    /\ mid_pedal' = <<>>
    /\ UNCHANGED <<ticks_per_step, pedal, trk, nread, notes, i_note, start,
                   end, piano_roll, roll>>
    /\ UNCHANGED <<emitVars, metaVars, extVars>>

\* one iteration of the loop of line 292 on a controller-64 event
GetPedalEvent ==
    /\ pc = "pedal"
    /\ nread < MaxEvents
    /\ \E value \in PedalValues, delta \in Deltas :
         LET time == curr_tick + delta IN
         /\ curr_tick' = time
         /\ last_pedal_on' = PedalOnAfter(last_pedal_on, value, time)
         /\ mid_pedal' = PedalAfter(mid_pedal, last_pedal_on, value, time)
    /\ nread' = nread + 1
    /\ UNCHANGED <<pc, ticks_per_step, pedal, trk, last_note_on,
                   note_event, notes,
                   i_note, start, end, piano_roll, roll>>
    /\ UNCHANGED <<emitVars, metaVars, extVars>>

\* line 301: _get_pedal returns; the loop of line 322 starts
EndPedal ==
    /\ pc = "pedal"
    /\ pc' = "assemble"
    /\ i_note' = 1
    /\ UNCHANGED <<ticks_per_step, pedal, trk, nread, curr_tick,
                   last_note_on,
                   note_event, notes, last_pedal_on, mid_pedal, start, end,
                   piano_roll, roll>>
    /\ UNCHANGED <<emitVars, metaVars, extVars>>

\* one iteration of the loop of line 322
AssembleNote ==
    /\ pc = "assemble"
    /\ i_note <= Len(notes)
    /\ LET note == notes[i_note]
           s == StartStep(note, ticks_per_step)
           e == EndStep(note, mid_pedal, ticks_per_step, pedal)
       IN  /\ start' = s
           /\ end' = e
           /\ piano_roll' = Assemble(piano_roll, note, s, e)
    /\ i_note' = i_note + 1
    /\ UNCHANGED <<pc, ticks_per_step, pedal, trk, nread, curr_tick,
                   last_note_on,
                   note_event, notes, last_pedal_on, mid_pedal, roll>>
    /\ UNCHANGED <<emitVars, metaVars, extVars>>

\* line 316: the next track of the file
NextTrack ==
    /\ pc = "assemble"
    /\ i_note > Len(notes)
    /\ trk < MaxTracks
    /\ pc' = "notes"
    /\ trk' = trk + 1
    /\ curr_tick' = 0
    /\ last_note_on' = <<>>
    /\ notes' = <<>>
    /\ note_event' = NoEvent
    /\ UNCHANGED <<ticks_per_step, pedal, nread, last_pedal_on,
                   mid_pedal, i_note, start, end, piano_roll, roll>>
    /\ UNCHANGED <<emitVars, metaVars, extVars>>

\* lines 355-366: after the last track
Finish ==
    /\ pc = "assemble"
    /\ i_note > Len(notes)
    /\ IF DOMAIN piano_roll = {}
       THEN pc' = "error" /\ roll' = roll
       ELSE pc' = "done" /\ roll' = RollOf(piano_roll)
    /\ UNCHANGED <<ticks_per_step, pedal, trk, nread, curr_tick,
                   last_note_on,
                   note_event, notes, last_pedal_on, mid_pedal, i_note,
                   start, end, piano_roll>>
    /\ UNCHANGED <<emitVars, metaVars, extVars>>

Next ==
    \/ GetNotesEvent
    \/ EndNotes
    \/ GetPedalEvent
    \/ EndPedal
    \/ AssembleNote
    \/ NextTrack
    \/ Finish

Spec == Init /\ [][Next]_vars

\* lines 246-284: _get_notes alone, on one track
NextNotes ==
    \/ GetNotesEvent
    \/ EndNotes

SpecNotes == Init /\ [][NextNotes]_vars

\* ------------------------------------- _get_pedal on any control change
MaxControlEvents == 3   \* control-change events of one track

Controls == {7, 64}             \* event.control
ControlValues == {0, 64, 127}   \* event.value
ControlEvents ==
    [type : {"control_change"}, control : Controls, value : ControlValues]

\* lines 289-290: _get_pedal starts on a track
InitPedal ==
    /\ pc = "pedal"
    /\ \E tpb \in TicksPerBeat, d \in Divs : ticks_per_step = tpb \div d
    /\ pedal = TRUE
    /\ trk = 1
    /\ nread = 0
    /\ curr_tick = 0
    /\ last_note_on = <<>>
    /\ notes = <<>>
    /\ note_event = NoEvent
    /\ last_pedal_on = 0
    /\ mid_pedal = <<>>
    /\ i_note = 1
    /\ start = 0
    /\ end = 0
    /\ piano_roll = <<>>
    /\ roll = <<>>
    /\ in_roll = <<>>
    /\ k = 0
    /\ on_notes = <<>>
    /\ delta_t = 0
    /\ track = <<>>
    /\ mid_meta = <<>>
    /\ meta_events = <<>>
    /\ cc_track = <<>>
    /\ TripIdle
    /\ BuildIdle
    /\ ShareIdle
    /\ SeqIdle
    /\ RoundIdle

\* one iteration of the loop of line 292 on a control-change event of any
\* controller and value; the events read are kept in cc_track
GetControlEvent ==
    /\ pc = "pedal"
    /\ Len(cc_track) < MaxControlEvents
    /\ \E event \in ControlEvents, delta \in Deltas :
         LET time == curr_tick + delta IN
         /\ curr_tick' = time
         /\ cc_track' = Append(cc_track,
                               [type |-> event.type, control |-> event.control,
                                value |-> event.value, time |-> time])
         /\ IF event.control = 64
            THEN /\ last_pedal_on' =
                        PedalOnAfter(last_pedal_on, event.value, time)
                 /\ mid_pedal' =
                        PedalAfter(mid_pedal, last_pedal_on, event.value, time)
            ELSE UNCHANGED <<last_pedal_on, mid_pedal>>
    /\ UNCHANGED <<pc, ticks_per_step, pedal, trk, nread, last_note_on,
                   note_event, notes, i_note, start, end, piano_roll, roll>>
    /\ UNCHANGED <<emitVars, metaVars, tripVars, buildVars, shareVars,
                   seqVars, roundVars>>

NextPedal ==
    \/ GetControlEvent
    \/ EndPedal

SpecPedal == InitPedal /\ [][NextPedal]_vars

\* ------------------------------------------------- pianoroll_to_midi
\* the chords a step of a given roll may hold
Notes == Pitches \X {"s", "l"}

\* lines 107-116, 122-126: the messages of _turn_on and _turn_off
NoteOff(val) == [type |-> "note_off", note |-> val, velocity |-> 100, time |-> 0]
NoteOn(val) == [type |-> "note_on", note |-> val, velocity |-> 100, time |-> 0]

\* line 183
EndOfTrack == [type |-> "end_of_track", time |-> 0]

\* the orders in which a Python set may be iterated
Orders(S) ==
    {f \in [1..Cardinality(S) -> S] : \A a, b \in DOMAIN f : a # b => f[a] # f[b]}

\* lines 160-162 alone: without the Staccato marks of lines 163-165
TurnOnNotesNew(curr_notes, on) ==
    {n[1] : n \in {m \in curr_notes : m[1] \notin Range(on)}}

\* lines 160-166: the set of the pitches to turn on
TurnOnNotes(curr_notes, on) ==
    {n[1] : n \in {m \in curr_notes : m[1] \notin Range(on)}}
        \cup {n[1] : n \in {m \in curr_notes : m[2] = "s"}}

\* lines 168-172: the sounding pitches absent from the chord, as listed in on
TurnOffNotes(curr_notes, on) ==
    SelectSeq(on, LAMBDA note_val : note_val \notin {n[1] : n \in curr_notes})

\* lines 119-126: the track after _turn_off(track, ns)
TurnOffTrack(tr, ns) == tr \o [j \in 1..Len(ns) |-> NoteOff(ns[j])]

\* line 127: on_notes after _turn_off(track, ns), one remove per note
RECURSIVE TurnOffOn(_, _)
TurnOffOn(on, ns) ==
    IF ns = <<>> THEN on ELSE TurnOffOn(RemoveFirst(on, Head(ns)), Tail(ns))

\* lines 103-116 with the note_on put before the note_off
TurnOnTrackSwapped(tr, ns) ==
    tr \o [j \in 1..(2 * Len(ns)) |->
              IF j % 2 = 1 THEN NoteOn(ns[(j + 1) \div 2])
              ELSE NoteOff(ns[j \div 2])]

\* lines 103-116: the track after _turn_on(track, ns)
TurnOnTrack(tr, ns) ==
    tr \o [j \in 1..(2 * Len(ns)) |->
              IF j % 2 = 1 THEN NoteOff(ns[(j + 1) \div 2]) ELSE NoteOn(ns[j \div 2])]

\* lines 103-117 without the append of line 117
TurnOnOnSkipped(on, ns) == on

\* line 117: on_notes after _turn_on(track, ns)
TurnOnOn(on, ns) == on \o ns

\* line 180: track[ind].time += delta_t (ind counts from 0)
AddDelta(tr, ind, dt) == [tr EXCEPT ![ind + 1].time = @ + dt]

\* lines 175, 181 with line 181 accumulating as line 175 does
DeltaAfterNoReset(emitted, dt, tps) == dt + tps

\* lines 175, 181: delta_t after a step
DeltaAfter(emitted, dt, tps) == IF emitted THEN tps ELSE dt + tps

\* lines 129, 157-158: a piano-roll is given
InitEmit ==
    /\ pc = "emit"
    /\ ticks_per_step \in StepTicks
    /\ in_roll \in UNION {[1..n -> SUBSET Notes] : n \in 0..MaxSteps}
    /\ k = 0
    /\ on_notes = <<>>
    /\ delta_t = 0
    /\ track = <<>>
    /\ mid_meta = <<>>
    /\ meta_events = <<>>
    /\ pedal = FALSE
    /\ trk = 1
    /\ nread = 0
    /\ curr_tick = 0
    /\ last_note_on = <<>>
    /\ notes = <<>>
    /\ note_event = NoEvent
    /\ last_pedal_on = 0
    /\ mid_pedal = <<>>
    /\ i_note = 1
    /\ start = 0
    /\ end = 0
    /\ piano_roll = <<>>
    /\ roll = <<>>
    /\ ExtIdle

\* one iteration of the loop of line 159
EmitStep ==
    /\ pc = "emit"
    /\ k < Len(in_roll)
    /\ LET curr_notes == in_roll[k + 1]
           turn_off_notes == TurnOffNotes(curr_notes, on_notes)
       IN  \E turn_on_notes \in Orders(TurnOnNotes(curr_notes, on_notes)) :
               IF turn_off_notes = <<>> /\ turn_on_notes = <<>>
               THEN /\ delta_t' = DeltaAfter(FALSE, delta_t, ticks_per_step)
                    /\ UNCHANGED <<track, on_notes>>
               ELSE /\ track' = AddDelta(
                                   TurnOnTrack(TurnOffTrack(track, turn_off_notes),
                                               turn_on_notes),
                                   Len(track), delta_t)
                    /\ on_notes' = TurnOnOn(TurnOffOn(on_notes, turn_off_notes),
                                            turn_on_notes)
                    /\ delta_t' = DeltaAfter(TRUE, delta_t, ticks_per_step)
    /\ k' = k + 1
    /\ UNCHANGED <<pc, ticks_per_step, in_roll, gridVars, scanVars, metaVars>>
    /\ UNCHANGED extVars

\* lines 183-185: the track is closed and the file returned
EndEmit ==
    /\ pc = "emit"
    /\ k = Len(in_roll)
    /\ track' = Append(track, EndOfTrack)
    /\ pc' = "emitted"
    /\ UNCHANGED <<ticks_per_step, in_roll, k, on_notes, delta_t, gridVars,
                   scanVars, metaVars>>
    /\ UNCHANGED extVars

\* lines 306-310: the track with every event time made absolute
RECURSIVE AbsoluteFrom(_, _)
AbsoluteFrom(tr, tick) ==
    IF tr = <<>> THEN <<>>
    ELSE <<[Head(tr) EXCEPT !.time = @ + tick]>>
             \o AbsoluteFrom(Tail(tr), Head(tr).time + tick)

AbsoluteTimes(tr) == AbsoluteFrom(tr, 0)

\* lines 246-284: _get_notes on a track with absolute times, from the open
\* lists lno and the intervals ns
RECURSIVE GetNotesFrom(_, _, _)
GetNotesFrom(tr, lno, ns) ==
    IF tr = <<>> THEN ns
    ELSE IF Head(tr).type = "end_of_track"
    THEN GetNotesFrom(Tail(tr), lno, ns)
    ELSE GetNotesFrom(Tail(tr),
                      OpenAfter(lno, Head(tr), Head(tr).time),
                      NotesAfter(ns, lno, Head(tr), Head(tr).time))

GetNotes(tr) == GetNotesFrom(tr, <<>>, <<>>)

\* lines 306-310, 318: the emitted note track is made absolute and given to
\* _get_notes
ExtractNotes ==
    /\ pc = "emitted"
    /\ pc' = "extracted"
    /\ notes' = GetNotes(AbsoluteTimes(track))
    /\ UNCHANGED <<ticks_per_step, emitVars, gridVars, metaVars, curr_tick,
                   last_note_on, note_event>>
    /\ UNCHANGED extVars

NextEmit ==
    \/ EmitStep
    \/ EndEmit
    \/ ExtractNotes

SpecEmit == InitEmit /\ [][NextEmit]_vars

\* ------------------------------------- pianoroll_to_midi, then
\* ------------------------------------- midi_to_pianoroll on its file

\* line 133: mid.ticks_per_beat
TicksPerBeatOf(dv, tps) == dv * tps

\* line 303 without the division
TicksPerStepOfBeat(beat, dv) == beat

\* line 303: int(mid.ticks_per_beat / div), of positive integers
TicksPerStepOf(beat, dv) == beat \div dv

\* lines 206-207: the meta_data of the returned PianoRoll, without its
\* meta_events
MetaDataOf(tps, dv) == [ticks_per_step |-> tps, div |-> dv]

MaxRoundSteps == 4      \* steps of a roll taken through both converters

\* the chords with at most one Note per pitch
RoundChords ==
    {c \in SUBSET Notes :
        \A v \in Pitches : Cardinality({n \in c : n[1] = v}) <= 1}

\* the rolls taken through both converters: chords with at most one Note per
\* pitch, and an empty last step
RoundRolls ==
    UNION {{r \o <<{}>> : r \in [1..n -> RoundChords]} :
              n \in 0..(MaxRoundSteps - 1)}

\* lines 129-156: pianoroll_to_midi is given a roll whose meta_data holds
\* ticks_per_step and div, and is at the loop of line 159
InitRound ==
    /\ pc = "emit"
    /\ in_meta \in [ticks_per_step : StepTicks, div : Divs]
    /\ ticks_per_step = in_meta.ticks_per_step
    /\ mid_tpb = TicksPerBeatOf(in_meta.div, in_meta.ticks_per_step)
    /\ out_meta = <<>>
    /\ in_roll \in RoundRolls
    /\ k = 0
    /\ on_notes = <<>>
    /\ delta_t = 0
    /\ track = <<>>
    /\ mid_meta = <<>>
    /\ meta_events = <<>>
    /\ pedal = FALSE
    /\ trk = 1
    /\ nread = 0
    /\ curr_tick = 0
    /\ last_note_on = <<>>
    /\ notes = <<>>
    /\ note_event = NoEvent
    /\ last_pedal_on = 0
    /\ mid_pedal = <<>>
    /\ i_note = 1
    /\ start = 0
    /\ end = 0
    /\ piano_roll = <<>>
    /\ roll = <<>>
    /\ NotRoundIdle

\* lines 303, 313, 318: midi_to_pianoroll(mid, div, pedal=False) on the file
\* pianoroll_to_midi built, with the div of the roll. The meta track holds no
\* note, and the note track no control change: its _get_pedal list is empty
BeginAssemble ==
    /\ pc = "extracted"
    /\ in_meta # <<>>
    /\ pc' = "assemble"
    /\ LET tps == TicksPerStepOf(mid_tpb, in_meta.div)
       IN  /\ ticks_per_step' = tps
           /\ out_meta' = MetaDataOf(tps, in_meta.div)
    /\ mid_pedal' = <<>>
    /\ i_note' = 1
    /\ UNCHANGED <<pedal, trk, nread, last_pedal_on, start, end, piano_roll,
                   roll>>
    /\ UNCHANGED <<scanVars, emitVars, metaVars, notRoundVars, in_meta,
                   mid_tpb>>

NextRound ==
    \/ EmitStep
    \/ EndEmit
    \/ ExtractNotes
    \/ BeginAssemble
    \/ AssembleNote
    \/ Finish

SpecRound == InitRound /\ [][NextRound]_vars

\* ------------------------------------------------------- _get_metadata
TempoEvents == [type : {"set_tempo"}, tempo : Tempos, time : Deltas]
KeyEvents == [type : {"key_signature"}, key : Keys, time : Deltas]

\* lines 212-221: the meta event of a tempo or key-signature event at
\* absolute tick `time`
MetaEventOf(event, time, tps) ==
    IF event.type = "set_tempo"
    THEN [type |-> "set_tempo", time |-> time \div tps,
          data |-> [tempo |-> event.tempo]]
    ELSE [type |-> "key_signature", time |-> time \div tps,
          data |-> [key |-> event.key]]

\* lines 228-232 without the comparison of the data
SameTypeAndTime(meta_event, event) ==
    /\ meta_event.type = event.type
    /\ meta_event.time = event.time

\* lines 228-232
SameMetaEvent(meta_event, event) ==
    /\ meta_event.type = event.type
    /\ meta_event.time = event.time
    /\ meta_event.data = event.data

\* lines 226-233
Occurred(events, meta_event) ==
    \E j \in DOMAIN events : SameMetaEvent(meta_event, events[j])

\* lines 235-236 with the new meta event put first
MetaEventsAfterFront(events, meta_event) ==
    IF Occurred(events, meta_event) THEN events ELSE <<meta_event>> \o events

\* lines 235-236
MetaEventsAfter(events, meta_event) ==
    IF Occurred(events, meta_event) THEN events ELSE Append(events, meta_event)

\* lines 303, 306-313: a midi file is given; _get_metadata starts on its
\* first track
InitMeta ==
    /\ pc = "meta"
    /\ \E tpb \in TicksPerBeat, d \in Divs : ticks_per_step = tpb \div d
    /\ trk = 1
    /\ nread = 0
    /\ curr_tick = 0
    /\ mid_meta = <<<<>>>>
    /\ meta_events = <<>>
    /\ pedal = FALSE
    /\ last_note_on = <<>>
    /\ notes = <<>>
    /\ note_event = NoEvent
    /\ last_pedal_on = 0
    /\ mid_pedal = <<>>
    /\ i_note = 1
    /\ start = 0
    /\ end = 0
    /\ piano_roll = <<>>
    /\ roll = <<>>
    /\ in_roll = <<>>
    /\ k = 0
    /\ on_notes = <<>>
    /\ delta_t = 0
    /\ track = <<>>
    /\ ExtIdle

\* lines 309-310 and one iteration of the loop of line 211 on a tempo or
\* key-signature event
GetMetadataEvent ==
    /\ pc = "meta"
    /\ nread < MaxMetaEvents
    /\ \E event \in TempoEvents \cup KeyEvents :
         LET time == curr_tick + event.time IN
         /\ curr_tick' = time
         /\ mid_meta' = [mid_meta EXCEPT ![trk] = Append(@, [event EXCEPT !.time = time])]
         /\ meta_events' =
                MetaEventsAfter(meta_events, MetaEventOf(event, time, ticks_per_step))
    /\ nread' = nread + 1
    /\ UNCHANGED <<pc, ticks_per_step, pedal, trk, last_pedal_on, mid_pedal,
                   i_note, start, end, piano_roll, roll, last_note_on,
                   note_event, notes,
                   emitVars>>
    /\ UNCHANGED extVars

\* line 210: the next track of the file
MetadataNextTrack ==
    /\ pc = "meta"
    /\ trk < MaxTracks
    /\ trk' = trk + 1
    /\ curr_tick' = 0
    /\ mid_meta' = Append(mid_meta, <<>>)
    /\ UNCHANGED <<pc, ticks_per_step, pedal, nread, last_pedal_on, mid_pedal,
                   i_note, start, end, piano_roll, roll, last_note_on,
                   note_event, notes,
                   emitVars, meta_events>>
    /\ UNCHANGED extVars

\* lines 238-240: _get_metadata returns
EndMetadata ==
    /\ pc = "meta"
    /\ pc' = "meta_done"
    /\ UNCHANGED <<ticks_per_step, gridVars, scanVars, emitVars, metaVars>>
    /\ UNCHANGED extVars

NextMeta ==
    \/ GetMetadataEvent
    \/ MetadataNextTrack
    \/ EndMetadata

SpecMeta == InitMeta /\ [][NextMeta]_vars

\* ------------------------------------- meta events through a midi file
\* line 142: the tempo pianoroll_to_midi always writes
DefaultTempo == 1000000

\* the "time" of a meta event of a given piano-roll, in steps
MetaTimes == {0, 1, 2}

\* the entries meta_data["meta_events"] of a given piano-roll may hold
RollMetaEvents ==
    [type : {"set_tempo"}, time : MetaTimes,
     data : [tempo : Tempos \cup {DefaultTempo}]]
        \cup [type : {"key_signature"}, time : MetaTimes, data : [key : Keys]]

\* the lists of distinct entries of at most MaxMetaEvents entries
RollMetaLists ==
    {s \in UNION {[1..n -> RollMetaEvents] : n \in 0..MaxMetaEvents} :
        \A i, j \in DOMAIN s : s[i] = s[j] => i = j}

\* the converters do not run
CoreIdle ==
    /\ pedal = FALSE
    /\ trk = 1
    /\ nread = 0
    /\ curr_tick = 0
    /\ last_note_on = <<>>
    /\ notes = <<>>
    /\ note_event = NoEvent
    /\ last_pedal_on = 0
    /\ mid_pedal = <<>>
    /\ i_note = 1
    /\ start = 0
    /\ end = 0
    /\ piano_roll = <<>>
    /\ roll = <<>>
    /\ in_roll = <<>>
    /\ k = 0
    /\ on_notes = <<>>
    /\ delta_t = 0
    /\ track = <<>>
    /\ mid_meta = <<>>
    /\ meta_events = <<>>

\* line 144: list.sort(key=lambda v: v["time"]), a stable sort
RECURSIVE SortedByTime(_)
SortedByTime(events) ==
    IF events = <<>> THEN <<>>
    ELSE LET sorted == SortedByTime(SubSeq(events, 1, Len(events) - 1))
             last == events[Len(events)]
             n == Cardinality({i \in DOMAIN sorted : sorted[i].time <= last.time})
         IN  SubSeq(sorted, 1, n) \o <<last>> \o SubSeq(sorted, n + 1, Len(sorted))

\* lines 147-153 with the time of the entry taken as the delta
MetaMessageAbsolute(meta_event, prev_time, tps) ==
    IF meta_event.type = "set_tempo"
    THEN [type |-> "set_tempo", tempo |-> meta_event.data.tempo,
          time |-> meta_event.time * tps]
    ELSE [type |-> "key_signature", key |-> meta_event.data.key,
          time |-> meta_event.time * tps]

\* lines 147-153: MetaMessage(type, time=(time - prev_time) * tps, **data)
MetaMessage(meta_event, prev_time, tps) ==
    IF meta_event.type = "set_tempo"
    THEN [type |-> "set_tempo", tempo |-> meta_event.data.tempo,
          time |-> (meta_event.time - prev_time) * tps]
    ELSE [type |-> "key_signature", key |-> meta_event.data.key,
          time |-> (meta_event.time - prev_time) * tps]

\* lines 145-154: the messages of the sorted entries, from entry i on
RECURSIVE MetaMessagesFrom(_, _, _, _)
MetaMessagesFrom(events, i, prev_time, tps) ==
    IF i > Len(events) THEN <<>>
    ELSE <<MetaMessage(events[i], prev_time, tps)>>
             \o MetaMessagesFrom(events, i + 1, events[i].time, tps)

\* lines 141-154
MetaTrackOf(events, tps) ==
    <<[type |-> "program_change", program |-> 0, time |-> 0],
      [type |-> "set_tempo", tempo |-> DefaultTempo, time |-> 0]>>
        \o MetaMessagesFrom(events, 1, 0, tps)

\* lines 128-130: a piano-roll with meta events is given
InitTrip ==
    /\ pc = "trip"
    /\ ticks_per_step \in StepTicks
    /\ roll_meta \in RollMetaLists
    /\ meta_track = <<>>
    /\ CoreIdle
    /\ NotTripIdle

\* lines 141-154: pianoroll_to_midi sorts the entries in place and builds the
\* meta track; the file gets ticks_per_beat = div * ticks_per_step (line 133)
\* and midi_to_pianoroll computes its ticks_per_step from it (line 303)
EmitMetaTrack ==
    /\ pc = "trip"
    /\ pc' = "trip_read"
    /\ roll_meta' = SortedByTime(roll_meta)
    /\ meta_track' = MetaTrackOf(SortedByTime(roll_meta), ticks_per_step)
    /\ \E div \in Divs : ticks_per_step' = (div * ticks_per_step) \div div
    /\ nread' = 0
    /\ curr_tick' = 0
    /\ meta_events' = <<>>
    /\ UNCHANGED <<pedal, trk, last_pedal_on, mid_pedal, i_note, start, end,
                   piano_roll, roll, last_note_on,
                   note_event, notes, emitVars, mid_meta>>
    /\ UNCHANGED notTripVars

\* lines 309-310 and one iteration of the loop of line 211 on the meta track
\* (the note track holds no tempo or key-signature event)
ReadMetaTrackEvent ==
    /\ pc = "trip_read"
    /\ nread < Len(meta_track)
    /\ LET event == meta_track[nread + 1]
           time == curr_tick + event.time
       IN  /\ curr_tick' = time
           /\ meta_events' =
                  IF event.type \in {"set_tempo", "key_signature"}
                  THEN MetaEventsAfter(meta_events,
                                       MetaEventOf(event, time, ticks_per_step))
                  ELSE meta_events
    /\ nread' = nread + 1
    /\ UNCHANGED <<pc, ticks_per_step, pedal, trk, last_pedal_on, mid_pedal,
                   i_note, start, end, piano_roll, roll, last_note_on,
                   note_event, notes,
                   emitVars, mid_meta, tripVars>>
    /\ UNCHANGED notTripVars

\* lines 238-240: _get_metadata returns
EndTrip ==
    /\ pc = "trip_read"
    /\ nread = Len(meta_track)
    /\ pc' = "trip_done"
    /\ UNCHANGED <<ticks_per_step, gridVars, scanVars, emitVars, metaVars,
                   extVars>>

NextTrip ==
    \/ EmitMetaTrack
    \/ ReadMetaTrackEvent
    \/ EndTrip

SpecTrip == InitTrip /\ [][NextTrip]_vars

\* ------------------------------------------------------- build_dataset
MaxFiles == 3           \* files the directory search yields

FileNames == {"a.mid", "b.mid"}

\* a file: its path.name, what parse_fn(path) does ("ok": returns a
\* PianoRoll, "raise": raises an Exception) and what filter_fn does on its
\* PianoRoll
Files ==
    [name : FileNames, parse : {"ok", "raise"},
     filter : {"True", "False", "raise"}]

Callbacks == {"None", "fn"}

\* pianoroll.py lines 39-40: add_metadata on a dict
AddMetadata(meta_data, new) ==
    [key \in DOMAIN meta_data \cup DOMAIN new |->
        IF key \in DOMAIN new THEN new[key] ELSE meta_data[key]]

\* the dictionary metadata_fn returns for a file
MetadataFn(file) == [title |-> file.name]

\* dataset.py lines 187, 194-197: the PianoRoll of the file at position path
\* of the enumeration, with its metadata
PianoRollOf(path, file, mfn) ==
    LET parsed == [path |-> path, meta_data |-> <<>>]
        with_fn == IF mfn # "None"
                   THEN [parsed EXCEPT !.meta_data = AddMetadata(@, MetadataFn(file))]
                   ELSE parsed
    IN  [with_fn EXCEPT !.meta_data = AddMetadata(@, [file_name |-> file.name])]

\* dataset.py lines 186-206 with the except clause counting the file as
\* filtered
OutcomeUncounted(file, ffn) ==
    IF file.parse = "raise" THEN "filtered"
    ELSE IF ffn = "None" THEN "included"
    ELSE IF file.filter = "raise" THEN "raised"
    ELSE IF file.filter = "True" THEN "included"
    ELSE "filtered"

\* dataset.py lines 186-206: what one iteration of the loop does with a file
Outcome(file, ffn) ==
    IF file.parse = "raise" THEN "parse_error"
    ELSE IF ffn = "None" THEN "included"
    ELSE IF file.filter = "raise" THEN "raised"
    ELSE IF file.filter = "True" THEN "included"
    ELSE "filtered"

\* dataset.py lines 175-183: the directory search has yielded its files
InitBuild ==
    /\ pc = "build"
    /\ ticks_per_step = 0
    /\ paths \in UNION {[1..n -> Files] : n \in 0..MaxFiles}
    /\ metadata_fn \in Callbacks
    /\ filter_fn \in Callbacks
    /\ n_path = 0
    /\ parse_err_num = 0
    /\ filter_num = 0
    /\ piano_rolls = <<>>
    /\ CoreIdle
    /\ NotBuildIdle

\* dataset.py lines 184-208: one iteration of the loop; an exception of
\* filter_fn is not caught and leaves build_dataset
BuildFile ==
    /\ pc = "build"
    /\ n_path < Len(paths)
    /\ LET path == n_path + 1
           file == paths[path]
           outcome == Outcome(file, filter_fn)
       IN  /\ pc' = IF outcome = "raised" THEN "raised" ELSE pc
           /\ n_path' = IF outcome = "raised" THEN n_path ELSE path
           /\ parse_err_num' =
                  IF outcome = "parse_error" THEN parse_err_num + 1
                  ELSE parse_err_num
           /\ filter_num' =
                  IF outcome = "filtered" THEN filter_num + 1 ELSE filter_num
           /\ piano_rolls' =
                  IF outcome = "included"
                  THEN Append(piano_rolls, PianoRollOf(path, file, metadata_fn))
                  ELSE piano_rolls
    /\ UNCHANGED <<ticks_per_step, paths, metadata_fn, filter_fn>>
    /\ UNCHANGED <<gridVars, scanVars, emitVars, metaVars, notBuildVars>>

\* dataset.py lines 210-214: the loop is over, the dataset is returned
EndBuild ==
    /\ pc = "build"
    /\ n_path = Len(paths)
    /\ pc' = "built"
    /\ UNCHANGED <<ticks_per_step, gridVars, scanVars, emitVars, metaVars,
                   extVars>>

NextBuild ==
    \/ BuildFile
    \/ EndBuild

SpecBuild == InitBuild /\ [][NextBuild]_vars

\* ------------------------------------ instances and default arguments
MaxInstances == 3       \* instances created
MaxMutations == 2       \* mutations made through the instances

Classes == {"PianoRoll", "PianoRollDataset"}
MetaKeys == {"composer"}
MetaValues == {"bach", "chopin"}
Items == {"item"}       \* what is appended to a roll or to a dataset's data

\* pianoroll.py line 28, dataset.py lines 30-31: the default values of the
\* arguments are evaluated once, when the class is defined; each call
\* without arguments binds the parameter to that one object.  The objects
\* of PianoRoll are list 1 and dict 1, those of PianoRollDataset list 2 and
\* dict 2.
DefaultList(cls) == IF cls = "PianoRoll" THEN 1 ELSE 2
DefaultDict(cls) == IF cls = "PianoRoll" THEN 1 ELSE 2

\* the class definitions have been evaluated, no instance is created
InitShare ==
    /\ pc = "objects"
    /\ ticks_per_step = 0
    /\ lists = <<<<>>, <<>>>>
    /\ dicts = <<[meta_events |-> "{}"], <<>>>>
    /\ insts = <<>>
    /\ target = 0
    /\ n_mut = 0
    /\ CoreIdle
    /\ NotShareIdle

\* pianoroll.py lines 28-31, dataset.py lines 28-35: cls() without arguments
NewDefault ==
    /\ pc = "objects"
    /\ Len(insts) < MaxInstances
    /\ \E cls \in Classes :
         insts' = Append(insts, [cls |-> cls, args |-> "default",
                                 roll |-> DefaultList(cls),
                                 meta_data |-> DefaultDict(cls)])
    /\ UNCHANGED <<pc, ticks_per_step, lists, dicts, target, n_mut>>
    /\ UNCHANGED <<gridVars, scanVars, emitVars, metaVars, notShareVars>>

\* pianoroll.py lines 28-31, dataset.py lines 28-35: cls(roll, meta_data)
\* with a new empty list and a new empty dict as arguments
NewWithArgs ==
    /\ pc = "objects"
    /\ Len(insts) < MaxInstances
    /\ \E cls \in Classes :
         insts' = Append(insts, [cls |-> cls, args |-> "given",
                                 roll |-> Len(lists) + 1,
                                 meta_data |-> Len(dicts) + 1])
    /\ lists' = Append(lists, <<>>)
    /\ dicts' = Append(dicts, <<>>)
    /\ UNCHANGED <<pc, ticks_per_step, target, n_mut>>
    /\ UNCHANGED <<gridVars, scanVars, emitVars, metaVars, notShareVars>>

\* pianoroll.py lines 33-40: add_metadata({key: value}) on an instance (for a
\* PianoRollDataset the assignment meta_data[key] = value)
AddMetadataTo ==
    /\ pc = "objects"
    /\ n_mut < MaxMutations
    /\ \E i \in DOMAIN insts, key \in MetaKeys, value \in MetaValues :
         /\ target' = i
         /\ dicts' = [dicts EXCEPT ![insts[i].meta_data] =
                          AddMetadata(@, [x \in {key} |-> value])]
    /\ n_mut' = n_mut + 1
    /\ UNCHANGED <<pc, ticks_per_step, lists, insts>>
    /\ UNCHANGED <<gridVars, scanVars, emitVars, metaVars, notShareVars>>

\* a mutation of the roll (of the data) of an instance: roll.append(item)
AppendToRoll ==
    /\ pc = "objects"
    /\ n_mut < MaxMutations
    /\ \E i \in DOMAIN insts, item \in Items :
         /\ target' = i
         /\ lists' = [lists EXCEPT ![insts[i].roll] = Append(@, item)]
    /\ n_mut' = n_mut + 1
    /\ UNCHANGED <<pc, ticks_per_step, dicts, insts>>
    /\ UNCHANGED <<gridVars, scanVars, emitVars, metaVars, notShareVars>>

NextShare ==
    \/ NewDefault
    \/ NewWithArgs
    \/ AddMetadataTo
    \/ AppendToRoll

SpecShare == InitShare /\ [][NextShare]_vars

\* --------------------------------------------------- PianoRoll.from_seq
MaxSeqLen == 4          \* tokens of the sequence given to from_seq

\* a token is the pair of its Python type and its value
Boundary == <<"str", "<T>">>
Tokens == {<<"int", p>> : p \in Pitches} \cup {Boundary, <<"str", "<P>">>}

\* line 80: isinstance(tok, int)
IsInt(tok) == tok[1] = "int"

\* line 82: tok == "<T>"
IsBoundary(tok) == tok[1] = "str" /\ tok[2] = "<T>"

\* lines 80-86 without the chord = [] of line 84
ChordAfterKept(c, tok) == IF IsInt(tok) THEN Append(c, tok[2]) ELSE c

\* lines 80-86: chord after one token
ChordAfter(c, tok) ==
    IF IsInt(tok) THEN Append(c, tok[2])
    ELSE IF IsBoundary(tok) THEN <<>>
    ELSE c

\* lines 73-78: a sequence is given
InitSeq ==
    /\ pc = "seq"
    /\ ticks_per_step = 0
    /\ seq \in UNION {[1..n -> Tokens] : n \in 0..MaxSeqLen}
    /\ n_tok = 0
    /\ seq_chord = <<>>
    /\ seq_roll = <<>>
    /\ CoreIdle
    /\ NotSeqIdle

\* one iteration of the loop of line 79; list(set(chord)) of line 83 holds
\* the distinct tokens of chord in the order the set iterates them
FromSeqToken ==
    /\ pc = "seq"
    /\ n_tok < Len(seq)
    /\ LET tok == seq[n_tok + 1] IN
         /\ seq_chord' = ChordAfter(seq_chord, tok)
         /\ IF ~IsInt(tok) /\ IsBoundary(tok)
            THEN \E step \in Orders(Range(seq_chord)) :
                     seq_roll' = Append(seq_roll, step)
            ELSE seq_roll' = seq_roll
    /\ n_tok' = n_tok + 1
    /\ UNCHANGED <<pc, ticks_per_step, seq>>
    /\ UNCHANGED <<gridVars, scanVars, emitVars, metaVars, notSeqVars>>

\* line 87: the loop is over, PianoRoll(roll, meta_data) is returned
EndFromSeq ==
    /\ pc = "seq"
    /\ n_tok = Len(seq)
    /\ pc' = "seq_done"
    /\ UNCHANGED <<ticks_per_step, gridVars, scanVars, emitVars, metaVars,
                   extVars>>

NextSeq ==
    \/ FromSeqToken
    \/ EndFromSeq

SpecSeq == InitSeq /\ [][NextSeq]_vars

\* ------------------------------------------------------------ properties
\* ceil(a / b) by its defining property: the least n with n * b >= a
CeilOf(a, b) == CHOOSE n \in 0..a : n * b >= a /\ (n - 1) * b < a

\* the steps of the dict that hold a mark
Occupied == {i \in DOMAIN piano_roll : piano_roll[i] # <<>>}

\* the returned roll has step i (0-based) and the step holds note n
Holds(i, n) == i + 1 <= Len(roll) /\ n \in roll[i + 1]

\* C1: the length of the returned roll is the highest step that received a
\* Staccato or Legato mark, plus one.
C1_RollLength ==
    pc = "done" => Len(roll) = MaxOf(Occupied) + 1

\* C2: midi_to_pianoroll never returns a zero-length roll: it returns a roll
\* of at least one step or fails, and it fails when no step was marked.
C2_NeverEmptyRoll ==
    /\ pc = "done" => Len(roll) >= 1
    /\ (pc \in {"done", "error"} /\ Occupied = {}) => pc = "error"

\* C3: with pedal handling off, every interval (pitch, start_tick, end_tick)
\* of the track assembled last is in the returned roll as Staccato at
\* ceil(start_tick / ticks_per_step) and as Legato, or as the Staccato of
\* another attack, at every step after it and before
\* ceil(end_tick / ticks_per_step).
C3_NoteOnGrid ==
    (pc = "done" /\ ~pedal) =>
        \A j \in DOMAIN notes :
            LET val == notes[j][1]
                s == CeilOf(notes[j][2], ticks_per_step)
                e == CeilOf(notes[j][3], ticks_per_step)
            IN  /\ Holds(s, <<val, "s">>)
                /\ \A i \in (s + 1)..(e - 1) :
                       Holds(i, <<val, "l">>) \/ Holds(i, <<val, "s">>)

\* C4: every step of the returned roll has at most one Note per pitch, and
\* where a Staccato attack fell on a step the one Note of the pitch is Staccato.
C4_OneNotePerPitch ==
    pc = "done" =>
        \A i \in DOMAIN roll, val \in Pitches :
            /\ Cardinality({n \in roll[i] : n[1] = val}) <= 1
            /\ <<val, "s">> \in Range(Get(piano_roll, i - 1, <<>>))
                   => {n \in roll[i] : n[1] = val} = {<<val, "s">>}

\* the largest up_tick of the pedal intervals that strictly contain end_tick
\* (end_tick itself when there is none)
ExtendedEnd(end_tick) ==
    LET ups == {mid_pedal[j][2] : j \in {h \in DOMAIN mid_pedal :
                    mid_pedal[h][1] < end_tick /\ end_tick < mid_pedal[h][2]}}
    IN  IF ups = {} THEN end_tick ELSE MaxOf(ups \cup {end_tick})

\* C5: the end step of a note is ceil(max(end_tick, U) / ticks_per_step) with
\* pedal handling on, U the largest up_tick of the pedal intervals of the
\* track with down < end_tick < up, and ceil(end_tick / ticks_per_step) with
\* pedal handling off.
C5_PedalEnd ==
    (pc = "assemble" /\ i_note > 1) =>
        LET end_tick == notes[i_note - 1][3]
        IN  end = IF pedal
                  THEN CeilOf(ExtendedEnd(end_tick), ticks_per_step)
                  ELSE CeilOf(end_tick, ticks_per_step)

\* a note was extended by a pedal interval that strictly contains its end,
\* next to a pedal interval that only touches it
C5_Witness ==
    /\ pc = "assemble" /\ i_note > 1 /\ pedal
    /\ LET end_tick == notes[i_note - 1][3]
       IN  /\ ExtendedEnd(end_tick) > end_tick
           /\ end > CeilOf(end_tick, ticks_per_step)
           /\ \E h \in DOMAIN mid_pedal : mid_pedal[h][2] = end_tick

\* the absolute tick of event j of a track with delta times
RECURSIVE TickOf(_, _)
TickOf(tr, j) == IF j = 0 THEN 0 ELSE TickOf(tr, j - 1) + tr[j].time

\* C6: every event emitted while processing step k (0-based) has absolute
\* tick k * ticks_per_step; the first event of the batch carries the
\* accumulated delta and the others 0; the accumulator is one step after an
\* emission and grows by one step at a step that emits nothing.
C6_StepTicks ==
    [][(pc = "emit" /\ k' = k + 1) =>
          LET first == Len(track) + 1
              batch == first..Len(track')
          IN  /\ \A j \in batch : TickOf(track', j) = k * ticks_per_step
              /\ batch # {} =>
                    /\ track'[first].time = delta_t
                    /\ \A j \in batch \ {first} : track'[j].time = 0
                    /\ delta_t' = ticks_per_step
              /\ batch = {} => delta_t' = delta_t + ticks_per_step]_vars

\* two leading silent steps were followed by a step that emitted
C6_Witness ==
    /\ pc = "emit" /\ k = 3
    /\ in_roll[1] = {} /\ in_roll[2] = {}
    /\ track # <<>>
    /\ track[1].time = 2 * ticks_per_step
    /\ delta_t = ticks_per_step

\* C7: a step emits a note-off for every sounding pitch absent from its
\* chord, then a note-off immediately followed by a note-on for every pitch
\* of the chord that is not sounding or is marked Staccato, and nothing else:
\* no event for a sounding pitch of the chord that is marked Legato only, no
\* event at all when there is nothing to turn off or on.
C7_StepEvents ==
    [][(pc = "emit" /\ k' = k + 1) =>
          LET chord == in_roll[k + 1]
              vals == {n[1] : n \in chord}
              sounding == Range(on_notes)
              off == sounding \ vals
              on == {v \in vals : v \notin sounding \/ <<v, "s">> \in chord}
              batch == SubSeq(track', Len(track) + 1, Len(track'))
              n == Len(batch) - 2 * Cardinality(on)
          IN  /\ n >= 0
              /\ \A j \in 1..n :
                     batch[j].type = "note_off" /\ batch[j].note \in off
              /\ \A v \in off : \E j \in 1..n : batch[j].note = v
              /\ \A h \in 1..Cardinality(on) :
                     /\ batch[n + 2 * h - 1].type = "note_off"
                     /\ batch[n + 2 * h].type = "note_on"
                     /\ batch[n + 2 * h - 1].note = batch[n + 2 * h].note
                     /\ batch[n + 2 * h].note \in on
              /\ \A v \in on : \E h \in 1..Cardinality(on) : batch[n + 2 * h].note = v
              /\ \A v \in (vals \cap sounding) \ on :
                     \A j \in DOMAIN batch : batch[j].note # v
              /\ (off = {} /\ on = {}) => batch = <<>>]_vars

\* the step processed last turned a sounding pitch off and retriggered
\* another sounding pitch marked Staccato
C7_Witness ==
    /\ pc = "emit" /\ k >= 2
    /\ \E v, w \in Pitches :
          /\ v # w
          /\ {<<v, "s">>, <<w, "s">>} \subseteq in_roll[k - 1]
          /\ in_roll[k] = {<<v, "s">>}
          /\ Len(track) >= 7
          /\ track[Len(track)] = NoteOn(v)

\* the pitches of a step of the given roll
ValsAt(i) == {n[1] : n \in in_roll[i]}

\* the steps at which the given roll attacks pitch v: a Staccato mark, or v
\* present and absent from the step before
AttackSteps(v) ==
    {i \in DOMAIN in_roll :
        /\ v \in ValsAt(i)
        /\ (<<v, "s">> \in in_roll[i] \/ i = 1 \/ v \notin ValsAt(i - 1))}

\* the re-extracted intervals of pitch v, in the order of notes
IntervalsOf(v) == SelectSeq(notes, LAMBDA note : note[1] = v)

\* attack i of v is the n-th attack of v
Rank(v, i) == Cardinality({a \in AttackSteps(v) : a <= i})

\* no silent step lies between two chords
NoSilentBetween ==
    \A a, b, c \in DOMAIN in_roll :
        (a < b /\ b < c /\ in_roll[a] # {} /\ in_roll[c] # {}) => in_roll[b] # {}

\* C8: for a roll with no silent step between two chords, if pitch p is
\* attacked at an earlier step than another pitch q, the interval re-extracted
\* for that attack of p starts at a strictly smaller tick than the interval
\* re-extracted for that attack of q.
C8_AttackOrder ==
    (pc = "extracted" /\ NoSilentBetween) =>
        \A p, q \in Pitches : \A i \in AttackSteps(p), j \in AttackSteps(q) :
            (/\ p # q /\ i < j
             /\ Rank(p, i) <= Len(IntervalsOf(p))
             /\ Rank(q, j) <= Len(IntervalsOf(q)))
            => IntervalsOf(p)[Rank(p, i)][2] < IntervalsOf(q)[Rank(q, j)][2]

\* p was attacked one step before q while p kept sounding, and both attacks
\* were re-extracted as intervals
C8_Witness ==
    /\ pc = "extracted" /\ NoSilentBetween
    /\ \E p, q \in Pitches :
          /\ p # q
          /\ Len(in_roll) = 3
          /\ in_roll[1] = {<<p, "s">>}
          /\ in_roll[2] = {<<p, "l">>, <<q, "s">>}
          /\ in_roll[3] = {}
          /\ Len(IntervalsOf(p)) = 1 /\ Len(IntervalsOf(q)) = 1

\* the meta events of the file in encounter order, track after track
RECURSIVE Flat(_)
Flat(tracks) == IF tracks = <<>> THEN <<>> ELSE Head(tracks) \o Flat(Tail(tracks))

\* the step of a tempo or key-signature event of the file
StepOf(event) == CHOOSE n \in 0..event.time :
                    n * ticks_per_step <= event.time
                        /\ event.time < (n + 1) * ticks_per_step

\* the (type, step, data) of a tempo or key-signature event of the file
EntryOf(event) ==
    <<event.type, StepOf(event),
      IF event.type = "set_tempo" THEN event.tempo ELSE event.key>>

\* the (type, time, data) of an entry of meta_events
EntryAt(j) ==
    <<meta_events[j].type, meta_events[j].time,
      IF meta_events[j].type = "set_tempo"
      THEN meta_events[j].data.tempo ELSE meta_events[j].data.key>>

\* the (type, step, data) of the events of the file, in encounter order
FileEntries ==
    LET flat == Flat(mid_meta) IN [j \in DOMAIN flat |-> EntryOf(flat[j])]

\* the position in entries of the first event that gives entry
FirstAt(entries, entry) ==
    CHOOSE j \in DOMAIN entries :
        entries[j] = entry /\ \A h \in 1..(j - 1) : entries[h] # entry

TimeOrdered ==
    \A a, b \in DOMAIN meta_events : a < b => meta_events[a].time <= meta_events[b].time

\* no event of the file lies at an earlier step than an event read before it
FileTimeOrdered ==
    LET entries == FileEntries
    IN  \A a, b \in DOMAIN entries : a < b => entries[a][2] <= entries[b][2]

C10_Dedup ==
    LET entries == FileEntries
        listed == [j \in DOMAIN meta_events |-> EntryAt(j)]
    IN  /\ \A a, b \in DOMAIN listed : a # b => listed[a] # listed[b]
        /\ Range(listed) = Range(entries)
        /\ \A a, b \in DOMAIN listed :
               a < b => FirstAt(entries, listed[a]) < FirstAt(entries, listed[b])

\* two tracks gave the same event, met again after an event that differs from
\* it in its data only
C10_Witness ==
    /\ pc = "meta_done"
    /\ Len(mid_meta) = 2 /\ Len(mid_meta[1]) = 2 /\ Len(mid_meta[2]) = 1
    /\ EntryOf(mid_meta[2][1]) = EntryOf(mid_meta[1][1])
    /\ EntryOf(mid_meta[1][2])[1] = EntryOf(mid_meta[1][1])[1]
    /\ EntryOf(mid_meta[1][2])[2] = EntryOf(mid_meta[1][1])[2]
    /\ EntryOf(mid_meta[1][2])[3] # EntryOf(mid_meta[1][1])[3]
    /\ Len(meta_events) = 2

\* the entry _get_metadata makes of the tempo message of line 142
DefaultTempoEntry ==
    [type |-> "set_tempo", time |-> 0, data |-> [tempo |-> DefaultTempo]]

\* C11 (as stated): for a roll whose meta_events are distinct set_tempo and
\* key_signature entries, pianoroll_to_midi followed by midi_to_pianoroll
\* with the same div returns a meta_events list holding exactly the original
\* entries, none lost and none added.
C11_MetaRoundTrip ==
    pc = "trip_done" =>
        /\ Range(meta_events) = Range(roll_meta)
        /\ Len(meta_events) = Len(roll_meta)

\* C11 (amended): the returned list starts with the entry of the default
\* tempo that pianoroll_to_midi always writes (set_tempo, time 0, tempo
\* 1000000) and goes on with the original entries other than that one, in
\* time order; no original entry is lost and nothing else is added.
C11_MetaRoundTripDefaultTempo ==
    pc = "trip_done" =>
        /\ meta_events =
               <<DefaultTempoEntry>>
                   \o SelectSeq(roll_meta, LAMBDA e : e # DefaultTempoEntry)
        /\ TimeOrdered

\* a roll of three entries, the default-tempo entry among them but not first,
\* has gone through the two conversions
C11_Witness ==
    /\ pc = "trip_done"
    /\ Len(roll_meta) >= 3
    /\ roll_meta[1] # DefaultTempoEntry
    /\ DefaultTempoEntry \in Range(roll_meta)
    /\ roll_meta[1].time < roll_meta[Len(roll_meta)].time

\* the files taken so far whose parse raised
ParseRaised == {i \in 1..n_path : paths[i].parse = "raise"}

\* the files taken so far that parsed and that the filter, if any, accepts
Accepted ==
    {i \in 1..n_path : /\ paths[i].parse = "ok"
                       /\ filter_fn = "None" \/ paths[i].filter = "True"}

\* C12: build_dataset never aborts because parsing one file raised: every
\* file is processed and ends in exactly one of three outcomes (included,
\* counted as a parse failure, counted as filtered), the parse-failure
\* counter equals the number of files whose parse raised, and the result
\* holds the conversion of every file that parsed and passed the filter, in
\* enumeration order.
C12_BuildDataset ==
    /\ pc = "built" => n_path = Len(paths)
    /\ pc = "raised" => /\ paths[n_path + 1].parse = "ok"
                        /\ paths[n_path + 1].filter = "raise"
    /\ pc \in {"build", "built", "raised"} =>
        /\ Len(piano_rolls) + parse_err_num + filter_num = n_path
        /\ parse_err_num = Cardinality(ParseRaised)
        /\ {piano_rolls[j].path : j \in DOMAIN piano_rolls} = Accepted
        /\ \A a, b \in DOMAIN piano_rolls :
               a < b => piano_rolls[a].path < piano_rolls[b].path
        /\ \A j \in DOMAIN piano_rolls :
               piano_rolls[j].meta_data.file_name
                   = paths[piano_rolls[j].path].name

\* a dataset was built from three files: the parse of the first raised, the
\* filter rejected the second and the third was included
C12_Witness ==
    /\ pc = "built"
    /\ Len(paths) = 3
    /\ paths[1].parse = "raise"
    /\ parse_err_num = 1
    /\ filter_num = 1
    /\ Len(piano_rolls) = 1
    /\ piano_rolls[1].path = 3

\* the number of occurrences of x in the list s
Count(s, x) == Cardinality({i \in DOMAIN s : s[i] = x})

\* the step is an iteration of the loop of _get_notes
NoteScanStep == pc = "notes" /\ nread' = nread + 1

\* the intervals the step appended to notes
Emitted == SubSeq(notes', Len(notes) + 1, Len(notes'))

\* C13: a note-off (explicit, or note-on with velocity 0) at tick T for a
\* pitch emits exactly one interval (pitch, start, T) for each open start of
\* that pitch different from T and no other interval; a note-off for a pitch
\* with no open starts emits nothing and leaves the open lists of all pitches
\* unchanged; the open starts of the other pitches are never affected.
C13_NoteOffPairing ==
    [][NoteScanStep =>
        LET note == note_event'.note
            T == note_event'.time
            open_notes == Get(last_note_on, note, <<>>)
        IN  /\ SubSeq(notes', 1, Len(notes)) = notes
            /\ IsNoteOff(note_event') =>
                /\ \A j \in DOMAIN Emitted :
                       /\ Emitted[j][1] = note
                       /\ Emitted[j][3] = T
                       /\ Emitted[j][2] # T
                /\ \A start_tick \in Range(open_notes) \cup {0} :
                       start_tick # T =>
                           Count(Emitted, <<note, start_tick, T>>)
                               = Count(open_notes, start_tick)
                /\ note \notin DOMAIN last_note_on =>
                       notes' = notes /\ last_note_on' = last_note_on
            /\ \A p \in (DOMAIN last_note_on \cup DOMAIN last_note_on') \ {note} :
                   /\ p \in DOMAIN last_note_on
                   /\ p \in DOMAIN last_note_on'
                   /\ last_note_on'[p] = last_note_on[p]]_vars

\* a note-off has closed two open starts of its pitch while the other pitch
\* has an open start
C13_Witness ==
    /\ pc = "notes"
    /\ IsNoteOff(note_event)
    /\ Len(notes) >= 2
    /\ notes[Len(notes)][1] = note_event.note
    /\ notes[Len(notes) - 1][1] = note_event.note
    /\ notes[Len(notes)][3] = note_event.time
    /\ notes[Len(notes) - 1][3] = note_event.time
    /\ notes[Len(notes)][2] # notes[Len(notes) - 1][2]
    /\ \E p \in DOMAIN last_note_on : p # note_event.note

\* C14 (as stated): after a note-off at tick T for a pitch, every open start
\* of that pitch equal to T is still open; the entry of the pitch is removed
\* only when there are no kept starts, so no open start is discarded without
\* producing an interval.
C14_KeptStartsStayOpen ==
    [][(NoteScanStep /\ IsNoteOff(note_event')) =>
        LET note == note_event'.note
            T == note_event'.time
        IN  /\ Count(Get(last_note_on', note, <<>>), T)
                   = Count(Get(last_note_on, note, <<>>), T)
            /\ \A start_tick \in Range(Get(last_note_on, note, <<>>)) :
                   \/ start_tick \in Range(Get(last_note_on', note, <<>>))
                   \/ <<note, start_tick, T>> \in Range(Emitted)]_vars

\* C14 (amended): after a note-off at tick T for a pitch with open starts,
\* the open starts equal to T stay open (and are the whole open list) exactly
\* when the note-off also closed a start different from T; in every other
\* case the entry of the pitch is removed, so when all the open starts equal
\* T they are discarded without an interval.
C14_KeptOnlyWhenClosed ==
    [][(NoteScanStep /\ IsNoteOff(note_event')
            /\ note_event'.note \in DOMAIN last_note_on) =>
        LET note == note_event'.note
            T == note_event'.time
            open_notes == last_note_on[note]
            closes == \E i \in DOMAIN open_notes : open_notes[i] # T
            keeps == \E i \in DOMAIN open_notes : open_notes[i] = T
        IN  IF closes /\ keeps
            THEN /\ note \in DOMAIN last_note_on'
                 /\ Range(last_note_on'[note]) = {T}
                 /\ Len(last_note_on'[note]) = Count(open_notes, T)
            ELSE /\ note \notin DOMAIN last_note_on'
                 /\ (~closes) => Emitted = <<>>]_vars

\* a note-off at tick T has closed an earlier start of its pitch and kept the
\* start at T open
C14_Witness ==
    /\ pc = "notes"
    /\ IsNoteOff(note_event)
    /\ note_event.note \in DOMAIN last_note_on
    /\ last_note_on[note_event.note] = <<note_event.time>>
    /\ notes # <<>>
    /\ notes[Len(notes)][1] = note_event.note
    /\ notes[Len(notes)][2] < note_event.time
    /\ notes[Len(notes)][3] = note_event.time

\* the positions in cc_track of the sustain-pedal events of the given value
PedalEventsAt(value) ==
    {i \in DOMAIN cc_track :
        cc_track[i].control = 64 /\ cc_track[i].value = value}

\* the position of the j-th pedal-up of cc_track
UpAt(j) ==
    CHOOSE i \in PedalEventsAt(0) :
        Cardinality({h \in PedalEventsAt(0) : h <= i}) = j

\* the pedal-downs read before position i
DownsBefore(i) == {h \in PedalEventsAt(127) : h < i}

\* the tick of the most recent pedal-down before position i, 0 if none
DownTickBefore(i) ==
    IF DownsBefore(i) = {} THEN 0 ELSE cc_track[MaxOf(DownsBefore(i))].time

\* C15 (as stated): every pedal interval (down_tick, up_tick) produced by
\* _get_pedal satisfies down_tick < up_tick, for every sequence of
\* sustain-pedal events with non-negative deltas.
C15_PedalDownBeforeUp ==
    \A j \in DOMAIN mid_pedal : mid_pedal[j][1] < mid_pedal[j][2]

\* C15 (amended): every pedal interval satisfies down_tick <= up_tick; the
\* two ticks are equal exactly when the up lies on the tick of the most
\* recent down, or lies at tick 0 with no preceding down.
C15_PedalDownNotAfterUp ==
    /\ Len(mid_pedal) = Cardinality(PedalEventsAt(0))
    /\ \A j \in DOMAIN mid_pedal :
           LET i == UpAt(j) IN
           /\ mid_pedal[j][1] <= mid_pedal[j][2]
           /\ mid_pedal[j][1] = mid_pedal[j][2] <=>
                  \/ DownsBefore(i) = {} /\ cc_track[i].time = 0
                  \/ /\ DownsBefore(i) # {}
                     /\ cc_track[MaxOf(DownsBefore(i))].time = cc_track[i].time

\* a down and an up on one tick after tick 0 gave an interval of equal ticks,
\* and a later up an interval of increasing ticks
C15_Witness ==
    /\ Len(mid_pedal) = 2
    /\ mid_pedal[1][1] = mid_pedal[1][2]
    /\ mid_pedal[1][1] > 0
    /\ mid_pedal[2][1] < mid_pedal[2][2]

\* C16: each controller-64 event with value 0 at tick T produces exactly one
\* interval (d, T), d the tick of the most recent preceding controller-64
\* value-127 event, or 0 if there is none; control-change events with
\* another controller number or with a value other than 0 and 127 produce no
\* interval and do not change the remembered down tick.
C16_PedalPairing ==
    /\ Len(mid_pedal) = Cardinality(PedalEventsAt(0))
    /\ \A j \in DOMAIN mid_pedal :
           mid_pedal[j] = <<DownTickBefore(UpAt(j)), cc_track[UpAt(j)].time>>
    /\ last_pedal_on = DownTickBefore(Len(cc_track) + 1)

\* a down, then at a later tick an event of another controller or of a value
\* other than 0 and 127, then an up: one interval, from the tick of the down
C16_Witness ==
    /\ Len(cc_track) = 3
    /\ cc_track[1].control = 64 /\ cc_track[1].value = 127
    /\ cc_track[2].control # 64 \/ cc_track[2].value = 64
    /\ cc_track[2].time > cc_track[1].time
    /\ cc_track[3].control = 64 /\ cc_track[3].value = 0
    /\ mid_pedal = <<<<cc_track[1].time, cc_track[3].time>>>>

\* C17: the emitter's on_notes is a set: after any sequence of steps it
\* holds each sounding pitch at most once, also after a Staccato retrigger of
\* an already-sounding pitch.
C17_OnNotesIsSet ==
    \A a, b \in DOMAIN on_notes : on_notes[a] = on_notes[b] => a = b

\* the roll (data) and the meta_data an instance shows, in the given heap
RollIn(ls, i) == ls[insts[i].roll]
MetaDataIn(ds, i) == ds[insts[i].meta_data]

\* C18: default-constructed containers are not shared: two PianoRoll (or
\* PianoRollDataset) instances created without arguments each own their
\* roll/data and meta_data, so add_metadata or a roll mutation on one
\* instance leaves the other instance's meta_data and roll unchanged.
C18_DefaultsNotShared ==
    [][n_mut' = n_mut + 1 =>
        \A j \in DOMAIN insts :
            (j # target' /\ insts[j].args = "default"
                /\ insts[target'].args = "default") =>
                /\ RollIn(lists', j) = RollIn(lists, j)
                /\ MetaDataIn(dicts', j) = MetaDataIn(dicts, j)]_vars

\* the positions of the boundary tokens among the tokens taken so far
BoundariesAt == {i \in 1..n_tok : IsBoundary(seq[i])}

\* the position of the j-th boundary token, 0 for j = 0
BoundaryAt(j) ==
    IF j = 0 THEN 0
    ELSE CHOOSE i \in BoundariesAt :
             Cardinality({h \in BoundariesAt : h <= i}) = j

\* the integer tokens strictly between positions a and b of seq
IntsBetween(a, b) == {seq[i][2] : i \in {h \in (a + 1)..(b - 1) : IsInt(seq[h])}}

\* C19: from_seq returns a roll with exactly one step per boundary token
\* "<T>", in order; step i holds the deduplicated set of the integer tokens
\* that occur after boundary i-1 and before boundary i; the other tokens
\* change nothing, and the integer tokens after the last boundary appear in
\* no step.
C19_FromSeq ==
    pc \in {"seq", "seq_done"} =>
        /\ pc = "seq_done" => n_tok = Len(seq)
        /\ Len(seq_roll) = Cardinality(BoundariesAt)
        /\ \A j \in DOMAIN seq_roll :
               /\ Range(seq_roll[j]) = IntsBetween(BoundaryAt(j - 1), BoundaryAt(j))
               /\ Len(seq_roll[j]) = Cardinality(Range(seq_roll[j]))

\* from_seq has returned on a sequence of one integer twice, a boundary and
\* one more integer: one step, holding the first integer once
C19_Witness ==
    /\ pc = "seq_done"
    /\ Len(seq) = 4
    /\ IsInt(seq[1])
    /\ seq[2] = seq[1]
    /\ IsBoundary(seq[Len(seq) - 1])
    /\ IsInt(seq[Len(seq)])
    /\ Len(seq_roll) = 1
    /\ seq_roll[1] = <<seq[1][2]>>

\* C20: after pianoroll_to_midi has processed step k of any roll, the set of
\* pitches in on_notes equals the set of pitches of step k's chord, whatever
\* the articulations and whatever the earlier steps were.
C20_OnNotesOfStep ==
    (pc \in {"emit", "emitted", "extracted"} /\ k >= 1) =>
        Range(on_notes) = ValsAt(k)

\* the third step was processed: it holds a pitch sounding since the first
\* step and a pitch absent from the second step
C20_Witness ==
    /\ pc = "emit"
    /\ k = 3
    /\ \E v \in ValsAt(3) : v \in ValsAt(2) /\ v \in ValsAt(1)
    /\ \E v \in ValsAt(3) : v \notin ValsAt(2)
    /\ Range(on_notes) = ValsAt(3)
    /\ Len(on_notes) = 2

\* event i of the emitted track is a note-on with no later note-off of its
\* pitch in the track
Hanging(i) ==
    /\ IsNoteOn(track[i])
    /\ \A j \in DOMAIN track :
           j > i => ~(track[j].type # "end_of_track" /\ IsNoteOff(track[j])
                          /\ track[j].note = track[i].note)

\* the absolute tick of event i of the emitted track
TickAt(i) == AbsoluteTimes(track)[i].time

\* C21: pianoroll_to_midi emits no event between the batch of the last step
\* and end_of_track, so every pitch present in the last step of the roll has
\* a final note-on with no later note-off in the track, and _get_notes yields
\* no interval for a note-on that has no later note-off.
C21_HangingNotes ==
    /\ [][(pc = "emit" /\ pc' = "emitted") =>
             k = Len(in_roll) /\ track' = Append(track, EndOfTrack)]_vars
    /\ []((pc \in {"emitted", "extracted"} /\ in_roll # <<>>) =>
             \A v \in ValsAt(Len(in_roll)) :
                 \E i \in DOMAIN track : Hanging(i) /\ track[i].note = v)
    /\ [](pc = "extracted" =>
             \A i \in DOMAIN track :
                 (track[i].type # "end_of_track" /\ Hanging(i)) =>
                     \A j \in DOMAIN notes :
                         ~(notes[j][1] = track[i].note
                               /\ notes[j][2] = TickAt(i)))

\* a roll of three steps was emitted and its intervals extracted: the pitch
\* of the first step was closed by the second step, the pitch of the second
\* step is held into the last step and has no interval
C21_Witness ==
    /\ pc = "extracted"
    /\ in_roll = <<{<<60, "s">>}, {<<62, "s">>}, {<<62, "l">>}>>
    /\ notes = <<<<60, 0, ticks_per_step>>>>
    /\ Hanging(Len(track) - 1)
    /\ track[Len(track)] = EndOfTrack

\* the articulations step i of the given roll holds for pitch v
ArtsAt(i, v) == {n[2] : n \in {m \in in_roll[i] : m[1] = v}}

\* the given roll holds at most one Note per pitch per step, every maximal
\* run of consecutive steps containing a pitch begins with Staccato, and the
\* last step is empty
Qualifies ==
    /\ in_roll # <<>>
    /\ in_roll[Len(in_roll)] = {}
    /\ \A i \in DOMAIN in_roll : \A v \in Pitches :
           /\ Cardinality(ArtsAt(i, v)) <= 1
           /\ (ArtsAt(i, v) # {} /\ (i = 1 \/ ArtsAt(i - 1, v) = {}))
                  => ArtsAt(i, v) = {"s"}

\* the given roll holds a note
HoldsNote == \E i \in DOMAIN in_roll : in_roll[i] # {}

\* the returned roll is a prefix of the given one, and the returned
\* meta_data has the ticks_per_step and div of the given one
PrefixReturned ==
    /\ Len(roll) <= Len(in_roll)
    /\ \A i \in DOMAIN roll : roll[i] = in_roll[i]
    /\ out_meta = in_meta

\* C22 as stated: for a roll with at most one Note per pitch per step, whose
\* runs begin with Staccato and whose last step is empty, midi_to_pianoroll
\* on the file of pianoroll_to_midi (same div, pedal off) returns a roll that
\* is a prefix of the original, with ticks_per_step and div unchanged.
C22_GridRoundTrip ==
    (pc \in {"done", "error"} /\ Qualifies) => (pc = "done" /\ PrefixReturned)

\* C22, amended: for such a roll that holds at least one note the round trip
\* returns a prefix of the original with ticks_per_step and div unchanged;
\* for such a roll without any note it fails with the empty-roll assertion.
C22_GridRoundTripOfNotes ==
    (pc \in {"done", "error"} /\ Qualifies) =>
        IF HoldsNote THEN pc = "done" /\ PrefixReturned
        ELSE pc = "error"

\* the round trip returned two steps of a three-step roll: a pitch held
\* Staccato then Legato, another retriggered by a second Staccato
C22_Witness ==
    /\ pc = "done"
    /\ Qualifies
    /\ in_roll = <<{<<60, "s">>, <<62, "s">>}, {<<60, "l">>, <<62, "s">>},
                   {<<62, "l">>}, {}>>
    /\ Len(roll) = 2
    /\ roll[2] = {<<60, "l">>, <<62, "s">>}
====
